---- MODULE Spec2Model ----
(***************************************************************************)
(* Model of plugins/modules/sql_query.py: one invocation of the module is  *)
(* SQLQuery.__init__, a straight-line run of database statements (table    *)
(* existence check, SELECT, then INSERT / UPDATE / DELETE and a second     *)
(* SELECT, depending on the state parameter).  The database table is       *)
(* shared state; everything else is local to the invocation.               *)
(***************************************************************************)
EXTENDS Integers, Sequences, FiniteSets, TLC

VARIABLES
    table,        \* the database table: a bag of rows
    exists,       \* whether the database has the named table
    pc,           \* position of each invocation inside SQLQuery.__init__
    req,          \* module.params and module.check_mode of each invocation
    new_values,   \* self.new_values
    type_for_column, \* self.type_for_column: column name -> type name
    rows_after,   \* the local rows_after
    changed,      \* the local changed
    result,       \* what exit_json / fail_json / an uncaught exception reported
    stmts,        \* the statements the invocation has executed, in order
    set_args,     \* the SET payload of the invocation's UPDATE
    table0,       \* the table when the invocation started
    prev          \* outcome of the preceding invocation when this one repeats it

vars == <<table, exists, pc, req, new_values, type_for_column, rows_after,
          changed, result, stmts, set_args, table0, prev>>

----------------------------------------------------------------------------
(* Bounds and value domains *)

\* the table never holds more than MaxRows rows
MaxRows == 2

\* the invocations; the sequential specification runs the first one only
Procs == {1, 2}

\* the columns of the database table (both Integer columns)
Cols == {"c1", "c2"}
ColSeq == <<"c1", "c2">>

\* SQL NULL / Python None
NULL == -1

Values == {0, 1}
Cell == Values \cup {NULL}

AllRows == [Cols -> Cell]

----------------------------------------------------------------------------
(* Bags of rows.  A statement without ORDER BY promises no order, so a bag of   *)
(* rows is kept as the sequence of its rows in the order of RowCode.           *)

RowCode(r) == 3 * (r["c1"] + 1) + (r["c2"] + 1)

IsSorted(s) == \A i \in 1..(Len(s) - 1) : RowCode(s[i]) <= RowCode(s[i + 1])

\* the bag s with one more copy of r
AddRow(s, r) ==
    LET k == Cardinality({i \in 1..Len(s) : RowCode(s[i]) <= RowCode(r)})
    IN  [i \in 1..(Len(s) + 1) |-> IF i <= k THEN s[i] ELSE IF i = k + 1 THEN r ELSE s[i - 1]]

RECURSIVE AsBag(_)
AsBag(s) == IF s = <<>> THEN <<>> ELSE AddRow(AsBag(Tail(s)), Head(s))

EmptyTable == <<>>

Tables == {s \in UNION {[1..n -> AllRows] : n \in 0..MaxRows} : IsSorted(s)}

----------------------------------------------------------------------------
(* TYPE_FOR_NAME and the coercion functions *)

TYPE_FOR_NAME == {"String", "Integer", "BigInteger", "Boolean", "Date", "DateTime", "Text"}

\* int(x) of a raw textual value; IntError stands for the ValueError int() raises
IntError == -2
IntOf(x) ==
    CASE x = "0" -> 0
      [] x = "1" -> 1
      [] OTHER -> IntError

IntParses(x) == IntOf(x) # IntError

----------------------------------------------------------------------------
(* Requests *)

NoFilter == <<>>

Leaf(op, c, v) == [key |-> op, column |-> c, value |-> v, sub |-> <<>>, list |-> FALSE]
Node(op, children) ==
    [key |-> op, column |-> "", value |-> 0, sub |-> children, list |-> FALSE]

\* a combinator whose children are given as a list of one-entry mappings
NodeList(op, children) ==
    [key |-> op, column |-> "", value |-> 0, sub |-> children, list |-> TRUE]

\* a filter mapping is a sequence of entries: a leaf {key: {column, value}} or a
\* combinator {and|or: mapping}; the keys of one mapping are distinct
OtherFilters ==
    { <<Leaf("eq", "c2", 1)>>,
      <<Leaf("ne", "c2", 1)>>,
      <<Leaf("eq", "c3", 1)>>,
      <<Leaf("bogus", "c2", 1)>>,
      <<Node("and", <<Leaf("eq", "c1", 0), Leaf("__ne__", "c2", 0)>>)>>,
      <<Node("or", <<Leaf("eq", "c1", 0),
                     Node("and", <<Leaf("eq", "c2", 1), Leaf("ne", "c1", 0)>>)>>)>>,
      <<Node("or", <<Leaf("eq", "c2", 1), Node("and", <<Leaf("eq", "c2", 0)>>)>>)>>,
      <<NodeList("or", <<Leaf("eq", "c2", 0), Leaf("eq", "c2", 1)>>)>> }

Filters == {NoFilter} \cup OtherFilters

Column(c, t, v) == [name |-> c, type |-> t, has_value |-> TRUE, value |-> v]
ColumnNoValue(c, t) == [name |-> c, type |-> t, has_value |-> FALSE, value |-> ""]

ColumnSpecs(c) == {ColumnNoValue(c, "Integer")} \cup {Column(c, "Integer", v) : v \in {"0", "1"}}

GoodColumns == {<<a, b>> : a \in ColumnSpecs("c1"), b \in ColumnSpecs("c2")}

FewColumns ==
    { <<Column("c1", "Integer", "0"), ColumnNoValue("c2", "Integer")>>,
      <<Column("c1", "Integer", "0"), Column("c2", "Integer", "0")>>,
      <<Column("c1", "Integer", "0"), Column("c2", "Integer", "1")>> }

\* an unknown type name, a value int() rejects
BadColumns ==
    { <<Column("c1", "Integer", "0"), Column("c2", "Varchar", "1")>>,
      <<Column("c1", "Integer", "0"), Column("c2", "Integer", "x")>> }

KeyLists == {<<>>, <<"c1">>, <<"c1", "c2">>}

\* key lists that name a column the request does not declare
OtherKeyLists == {<<"c3">>, <<"c1", "c3">>}

States == {"present", "absent", "select", "insert", "count"}

Requests ==
    [state : States, check_mode : BOOLEAN, keys : KeyLists,
     columns : GoodColumns, filter : {NoFilter}, distinct : {FALSE}]
    \cup
    [state : States, check_mode : BOOLEAN, keys : {<<"c1">>},
     columns : FewColumns, filter : OtherFilters, distinct : {FALSE}]
    \cup
    [state : States, check_mode : {FALSE}, keys : OtherKeyLists,
     columns : FewColumns, filter : {NoFilter}, distinct : {FALSE}]
    \cup
    [state : States, check_mode : BOOLEAN, keys : {<<"c1">>},
     columns : BadColumns, filter : {NoFilter}, distinct : {FALSE}]
    \cup
    [state : {"select", "insert", "count"}, check_mode : {FALSE}, keys : {<<>>},
     columns : FewColumns, filter : {NoFilter}, distinct : {TRUE}]

NoRequest ==
    [state |-> "select", check_mode |-> FALSE, keys |-> <<>>,
     columns |-> CHOOSE cs \in GoodColumns : \A i \in 1..2 : ~cs[i].has_value,
     filter |-> NoFilter, distinct |-> FALSE]

----------------------------------------------------------------------------
(* SQLQuery.create_table *)

Declared(r) == {r.columns[i].name : i \in 1..Len(r.columns)}

\* TYPE_FOR_NAME[type_name]['python'](value) for the integer types of the model's table
Coerce(type_name, value) == IntOf(value)

\* the exception create_table raises, "" when it raises none; the columns are
\* visited in order, the type lookup of a column precedes the coercion of its value
RECURSIVE create_table_error(_, _)
create_table_error(columns, i) ==
    IF i > Len(columns) THEN ""
    ELSE IF columns[i].type \notin TYPE_FOR_NAME THEN "KeyError"
    ELSE IF columns[i].has_value /\ ~IntParses(columns[i].value) THEN "ValueError"
    ELSE create_table_error(columns, i + 1)

\* self.new_values after create_table: the columns that carry a value
create_table_new_values(columns) ==
    LET idx == {i \in 1..Len(columns) : columns[i].has_value}
    IN  [c \in {columns[i].name : i \in idx} |->
            LET i == CHOOSE j \in idx : columns[j].name = c
            IN  Coerce(columns[i].type, columns[i].value)]

create_table_types(columns) ==
    [c \in {columns[i].name : i \in 1..Len(columns)} |->
        (LET i == CHOOSE j \in 1..Len(columns) : columns[j].name = c IN columns[i].type)]

----------------------------------------------------------------------------
(* SQLQuery.where_keys, _where_column_helper, _split_filter *)

\* compiled predicate terms
Term(kind, c, v, args) == [kind |-> kind, column |-> c, value |-> v, args |-> args]

\* attributes of a column object that _split_filter can reach through getattr
ColumnOperators == {"__ne__"}

\* the exception raised while compiling a filter mapping, "" when there is none.
\* The loop takes each element of fltrs as a key: an element of a list is a
\* mapping, it equals neither 'and' nor 'or', and fltrs[key] on the list raises
\* TypeError
RECURSIVE split_filter_error(_, _, _)
split_filter_error(fltrs, i, declared) ==
    IF i > Len(fltrs) THEN ""
    ELSE LET f == fltrs[i]
             here ==
                IF f.key \in {"and", "or"}
                THEN IF f.list /\ f.sub # <<>> THEN "TypeError"
                     ELSE split_filter_error(f.sub, 1, declared)
                ELSE IF f.column \notin declared THEN "Column does not exist"
                ELSE IF f.key \in {"eq", "ne"} THEN ""
                ELSE IF f.key \notin ColumnOperators THEN "Unknown operator on column"
                ELSE ""
         IN  IF here # "" THEN here ELSE split_filter_error(fltrs, i + 1, declared)

\* the terms _split_filter appends to args
RECURSIVE split_filter(_, _)
split_filter(fltrs, i) ==
    IF i > Len(fltrs) THEN <<>>
    ELSE LET f == fltrs[i]
             t == IF f.key = "and" THEN Term("and", "", 0, split_filter(f.sub, 1))
                  ELSE IF f.key = "or" THEN Term("or", "", 0, split_filter(f.sub, 1))
                  ELSE IF f.key = "eq" THEN Term("eq", f.column, f.value, <<>>)
                  ELSE IF f.key = "ne" THEN Term("column", f.column, 0, <<>>)
                  ELSE Term(f.key, f.column, f.value, <<>>)
         IN  <<t>> \o split_filter(fltrs, i + 1)

\* the key-equality terms of where_keys
RECURSIVE key_args(_, _, _)
key_args(keys, i, nv) ==
    IF i > Len(keys) THEN <<>>
    ELSE (IF keys[i] \in DOMAIN nv
          THEN <<Term("eq", keys[i], nv[keys[i]], <<>>)>>
          ELSE <<>>) \o key_args(keys, i + 1, nv)

where_keys_error(r) == split_filter_error(r.filter, 1, Declared(r))

\* variant: every declared value constrains the statement, not only the keys
where_keys_all_values(r, nv) ==
    key_args(ColSeq, 1, nv) \o split_filter(r.filter, 1)

where_keys(r, nv) == key_args(r.keys, 1, nv) \o split_filter(r.filter, 1)

\* whether the database finds a compiled term true of a row (SQL: a comparison
\* with NULL is not true; column == None compiles to IS NULL)
RECURSIVE Holds(_, _)
Holds(t, row) ==
    CASE t.kind = "eq" ->
            IF t.value = NULL THEN row[t.column] = NULL ELSE row[t.column] = t.value
      [] t.kind = "column" -> row[t.column] # NULL /\ row[t.column] # 0
      [] t.kind = "__ne__" -> row[t.column] # NULL /\ row[t.column] # t.value
      [] t.kind = "and" -> \A i \in 1..Len(t.args) : Holds(t.args[i], row)
      [] t.kind = "or" -> \E i \in 1..Len(t.args) : Holds(t.args[i], row)

\* stmt.where(and_(*args)) when args is not empty, the bare statement otherwise
Where(args, row) == \A i \in 1..Len(args) : Holds(args[i], row)

----------------------------------------------------------------------------
(* The statements *)

Matching(t, args) == LET Test(r) == Where(args, r) IN SelectSeq(t, Test)

NotMatching(t, args) == LET Test(r) == ~Where(args, r) IN SelectSeq(t, Test)

\* SELECT DISTINCT
Distinct(b) ==
    LET First(i) == \A j \in 1..(i - 1) : b[j] # b[i]
        keep == {i \in 1..Len(b) : First(i)}
        Nth(n) == CHOOSE i \in keep : Cardinality({j \in keep : j < i}) = n - 1
    IN  [n \in 1..Cardinality(keep) |-> b[Nth(n)]]

RowsResult(b) == [kind |-> "rows", rows |-> b, n |-> 0]
NoRows == RowsResult(EmptyTable)

\* SQLQuery.select_rows: the list of rows the statement returns.  FromClause.count()
\* selects count(<first column>) AS tbl_row_count from the statement built so far:
\* one row, which counts the selected rows whose first column is not NULL
select_rows(r, nv, t) ==
    LET m == Matching(t, where_keys(r, nv))
        sel == IF r.distinct THEN Distinct(m) ELSE m
        first == r.columns[1].name
    IN  IF r.state = "count"
        THEN [kind |-> "count", rows |-> EmptyTable,
              n |-> Cardinality({i \in 1..Len(sel) : sel[i][first] # NULL})]
        ELSE RowsResult(sel)

\* len(rows)
LenRows(rows) ==
    CASE rows.kind = "rows" -> Len(rows.rows)
      [] rows.kind = "count" -> 1
      [] rows.kind = "dict" -> rows.n

\* SQLQuery.insert_row: one new row, NULL in the columns without a value
InsertedRow(nv) == [c \in Cols |-> IF c \in DOMAIN nv THEN nv[c] ELSE NULL]

\* variant: the INSERT is skipped when an equal row is already stored
insert_row_if_missing(t, nv) ==
    IF \E i \in 1..Len(t) : t[i] = InsertedRow(nv) THEN t ELSE AddRow(t, InsertedRow(nv))

insert_row(t, nv) == AddRow(t, InsertedRow(nv))

\* variant: the SET payload carries every declared value, the key columns too
update_args_all(keys, nv) == nv

\* the SET payload of update_rows
update_args(keys, nv) ==
    LET ks == {keys[i] : i \in 1..Len(keys)}
    IN  [c \in {d \in DOMAIN nv : d \notin ks} |-> nv[c]]

Updated(row, args) == [c \in Cols |-> IF c \in DOMAIN args THEN args[c] ELSE row[c]]

\* variant: only the first row the predicate selects is updated
update_rows_first(t, r, nv) ==
    LET w == where_keys(r, nv)
        args == update_args(r.keys, nv)
        hit == {i \in 1..Len(t) : Where(w, t[i])}
    IN  AsBag([i \in 1..Len(t) |->
                  IF i \in hit /\ (\A j \in hit : i <= j) THEN Updated(t[i], args) ELSE t[i]])

\* SQLQuery.update_rows
update_rows(t, r, nv) ==
    LET w == where_keys(r, nv)
        args == update_args(r.keys, nv)
    IN  AsBag([i \in 1..Len(t) |-> IF Where(w, t[i]) THEN Updated(t[i], args) ELSE t[i]])

\* variant: only the first row the predicate selects is deleted
delete_rows_first(t, r, nv) ==
    LET w == where_keys(r, nv)
        hit == {i \in 1..Len(t) : Where(w, t[i])}
        k == IF hit = {} THEN 0 ELSE CHOOSE i \in hit : \A j \in hit : i <= j
    IN  [i \in 1..(Len(t) - (IF k = 0 THEN 0 ELSE 1)) |-> IF k = 0 \/ i < k THEN t[i] ELSE t[i + 1]]

\* SQLQuery.delete_rows
delete_rows(t, r, nv) == NotMatching(t, where_keys(r, nv))

\* variant: the loop returns after the first row
compare_rows_first(rows, nv) ==
    /\ Len(rows.rows) >= 1
    /\ \E col \in DOMAIN nv : nv[col] # rows.rows[1][col]

\* SQLQuery.compare_rows
compare_rows(rows, nv) ==
    \E i \in 1..Len(rows.rows) : \E col \in DOMAIN nv : nv[col] # rows.rows[i][col]

\* SQLQuery.format_rows: the exception it raises, "" when it raises none.  A count
\* row has the one key tbl_row_count, which type_for_column lacks; iterating the
\* new_values mapping yields column names, which have no keys()
format_rows_error(rows, types) ==
    CASE rows.kind = "rows" -> ""
      [] rows.kind = "count" -> IF "tbl_row_count" \in DOMAIN types THEN "" ELSE "KeyError"
      [] rows.kind = "dict" -> IF rows.n = 0 THEN "" ELSE "AttributeError"

\* type_func(value) of a value the driver returned for an integer column
FormatCell(v) == IF v # NULL THEN v ELSE NULL

format_rows(rows) ==
    IF rows.kind = "rows"
    THEN [i \in 1..Len(rows.rows) |-> [c \in Cols |-> FormatCell(rows.rows[i][c])]]
    ELSE <<>>

----------------------------------------------------------------------------
(* One invocation: SQLQuery.__init__ *)

NoResult == [status |-> "none", changed |-> FALSE, rows |-> EmptyTable,
             rows_null |-> FALSE, msg |-> ""]

NoPrev == [valid |-> FALSE, dry |-> FALSE, status |-> "none", changed |-> FALSE,
           wrote |-> FALSE]

Writes == {"INSERT", "UPDATE", "DELETE"}

Wrote(p) == \E i \in 1..Len(stmts[p]) : stmts[p][i] \in Writes

Finished(p) == pc[p] \in {"done", "failed"}

EmptyArgs == [c \in {} |-> 0]

TypeOK ==
    /\ table \in Seq(AllRows)
    /\ Len(table) <= MaxRows
    /\ IsSorted(table)
    /\ exists \in BOOLEAN
    /\ pc \in [Procs -> {"idle", "init", "checked", "created", "read", "written",
                         "done", "failed"}]
    /\ \A p \in Procs : req[p] \in Requests \cup {NoRequest}
    /\ changed \in [Procs -> BOOLEAN]

\* a database without the table has no rows of it
Init ==
    /\ exists \in BOOLEAN
    /\ table \in (IF exists THEN Tables ELSE {EmptyTable})
    /\ pc = [p \in Procs |-> "idle"]
    /\ req = [p \in Procs |-> NoRequest]
    /\ new_values = [p \in Procs |-> EmptyArgs]
    /\ type_for_column = [p \in Procs |-> EmptyArgs]
    /\ rows_after = [p \in Procs |-> NoRows]
    /\ changed = [p \in Procs |-> FALSE]
    /\ result = [p \in Procs |-> NoResult]
    /\ stmts = [p \in Procs |-> <<>>]
    /\ set_args = [p \in Procs |-> EmptyArgs]
    /\ table0 = [p \in Procs |-> table]
    /\ prev = [p \in Procs |-> NoPrev]

\* the module is run with request r: main() constructs SQLQuery(module)
Begin(p, r, pv) ==
    /\ pc' = [pc EXCEPT ![p] = "init"]
    /\ req' = [req EXCEPT ![p] = r]
    /\ new_values' = [new_values EXCEPT ![p] = EmptyArgs]
    /\ type_for_column' = [type_for_column EXCEPT ![p] = EmptyArgs]
    /\ rows_after' = [rows_after EXCEPT ![p] = NoRows]
    /\ changed' = [changed EXCEPT ![p] = FALSE]
    /\ result' = [result EXCEPT ![p] = NoResult]
    /\ stmts' = [stmts EXCEPT ![p] = <<>>]
    /\ set_args' = [set_args EXCEPT ![p] = EmptyArgs]
    /\ table0' = [table0 EXCEPT ![p] = table]
    /\ prev' = [prev EXCEPT ![p] = pv]
    /\ UNCHANGED <<table, exists>>

Invoke(p) ==
    /\ pc[p] = "idle"
    /\ \E r \in Requests : Begin(p, r, NoPrev)

\* the same task is run again with identical input
Repeat(p) ==
    /\ Finished(p)
    /\ ~prev[p].valid
    /\ ~prev[p].dry
    /\ Begin(p, req[p], [valid |-> TRUE, dry |-> FALSE, status |-> pc[p],
                         changed |-> result[p].changed, wrote |-> Wrote(p)])

\* the task was run in check mode and is now run for real: the same request with
\* check_mode off
RunReal(p) ==
    /\ Finished(p)
    /\ req[p].check_mode
    /\ ~prev[p].valid
    /\ Begin(p, [req[p] EXCEPT !.check_mode = FALSE],
             [valid |-> FALSE, dry |-> TRUE, status |-> pc[p],
              changed |-> result[p].changed, wrote |-> Wrote(p)])

\* self.module.check_mode
DryRunNever(r) == FALSE
DryRunAlways(r) == TRUE
DryRun(r) == r.check_mode

\* module.fail_json or an uncaught exception ends the invocation
Fail(p, msg) ==
    /\ pc' = [pc EXCEPT ![p] = "failed"]
    /\ result' = [result EXCEPT ![p] = [NoResult EXCEPT !.status = "failed", !.msg = msg]]

\* module.exit_json(changed=chg, rows=rows)
Exit(p, chg, rows, null) ==
    /\ pc' = [pc EXCEPT ![p] = "done"]
    /\ result' = [result EXCEPT ![p] = [status |-> "ok", changed |-> chg, rows |-> rows,
                                         rows_null |-> null, msg |-> ""]]

\* exit_json(changed=chg, rows=self.format_rows(rows)): format_rows runs first
ExitFormatted(p, chg, rows) ==
    IF format_rows_error(rows, type_for_column[p]) # ""
    THEN Fail(p, format_rows_error(rows, type_for_column[p]))
    ELSE Exit(p, chg, format_rows(rows), FALSE)

\* variant: the result of the existence check is ignored
table_exists_ignored(p) ==
    /\ pc[p] = "init"
    /\ pc' = [pc EXCEPT ![p] = "checked"]
    /\ UNCHANGED <<table, exists, req, new_values, type_for_column, rows_after,
                   changed, result, stmts, set_args, table0, prev>>

\* lines 245-247: the table existence check
table_exists(p) ==
    /\ pc[p] = "init"
    /\ IF exists
       THEN /\ pc' = [pc EXCEPT ![p] = "checked"]
            /\ UNCHANGED result
       ELSE Fail(p, "table does not exist")
    /\ UNCHANGED <<table, exists, req, new_values, type_for_column, rows_after,
                   changed, stmts, set_args, table0, prev>>

\* line 248
create_table(p) ==
    /\ pc[p] = "checked"
    /\ LET e == create_table_error(req[p].columns, 1)
       IN  IF e # ""
           THEN /\ Fail(p, e)
                /\ UNCHANGED <<new_values, type_for_column>>
           ELSE /\ pc' = [pc EXCEPT ![p] = "created"]
                /\ new_values' =
                      [new_values EXCEPT ![p] = create_table_new_values(req[p].columns)]
                /\ type_for_column' =
                      [type_for_column EXCEPT ![p] = create_table_types(req[p].columns)]
                /\ UNCHANGED result
    /\ UNCHANGED <<table, exists, req, rows_after, changed, stmts, set_args, table0, prev>>

\* variant: the statement is sent before the filter is compiled, the compile error
\* surfaces after the read
first_select_late(p) ==
    /\ pc[p] = "created"
    /\ stmts' = [stmts EXCEPT ![p] = Append(@, "SELECT")]
    /\ IF where_keys_error(req[p]) # ""
       THEN /\ Fail(p, where_keys_error(req[p]))
            /\ UNCHANGED rows_after
       ELSE /\ pc' = [pc EXCEPT ![p] = "read"]
            /\ rows_after' = [rows_after EXCEPT ![p] = select_rows(req[p], new_values[p], table)]
            /\ UNCHANGED result
    /\ UNCHANGED <<table, exists, req, new_values, type_for_column, changed,
                   set_args, table0, prev>>

\* lines 249-250: the initial read
first_select(p) ==
    /\ pc[p] = "created"
    /\ IF where_keys_error(req[p]) # ""
       THEN /\ Fail(p, where_keys_error(req[p]))
            /\ UNCHANGED <<rows_after, stmts>>
       ELSE /\ pc' = [pc EXCEPT ![p] = "read"]
            /\ rows_after' = [rows_after EXCEPT ![p] = select_rows(req[p], new_values[p], table)]
            /\ stmts' = [stmts EXCEPT ![p] = Append(@, "SELECT")]
            /\ UNCHANGED result
    /\ UNCHANGED <<table, exists, req, new_values, type_for_column, changed,
                   set_args, table0, prev>>

\* variant: a read that found rows reports a change
select_changed_if_rows(rows) == LenRows(rows) >= 1

\* the changed flag of line 252
select_changed(rows) == FALSE

\* lines 251-252
state_select(p) ==
    /\ pc[p] = "read"
    /\ req[p].state \in {"select", "count"}
    /\ ExitFormatted(p, select_changed(rows_after[p]), rows_after[p])
    /\ UNCHANGED <<table, exists, req, new_values, type_for_column, rows_after,
                   changed, stmts, set_args, table0, prev>>

\* lines 253-260
state_absent(p) ==
    /\ pc[p] = "read"
    /\ req[p].state = "absent"
    /\ LET chg == ~(LenRows(rows_after[p]) < 1)
       IN  /\ changed' = [changed EXCEPT ![p] = chg]
           /\ IF chg /\ ~DryRun(req[p])
              THEN /\ table' = delete_rows(table, req[p], new_values[p])
                   /\ stmts' = [stmts EXCEPT ![p] = Append(@, "DELETE")]
              ELSE UNCHANGED <<table, stmts>>
           /\ Exit(p, chg, EmptyTable, TRUE)
    /\ UNCHANGED <<exists, req, new_values, type_for_column, rows_after,
                   set_args, table0, prev>>

\* lines 261-264
state_insert(p) ==
    /\ pc[p] = "read"
    /\ req[p].state = "insert"
    /\ changed' = [changed EXCEPT ![p] = TRUE]
    /\ IF ~DryRun(req[p])
       THEN /\ Len(table) < MaxRows
            /\ table' = insert_row(table, new_values[p])
            /\ stmts' = [stmts EXCEPT ![p] = Append(@, "INSERT")]
       ELSE UNCHANGED <<table, stmts>>
    /\ pc' = [pc EXCEPT ![p] = "written"]
    /\ UNCHANGED <<exists, req, new_values, type_for_column, rows_after, result,
                   set_args, table0, prev>>

\* variant: read, decision and write are one atomic step on the current table
state_present_atomic(p) ==
    /\ pc[p] = "read"
    /\ req[p].state = "present"
    /\ LET now == select_rows(req[p], new_values[p], table)
           len == LenRows(now)
           chg == IF len < 1 THEN TRUE ELSE compare_rows(now, new_values[p])
       IN  /\ changed' = [changed EXCEPT ![p] = chg]
           /\ IF DryRun(req[p])
              THEN /\ ExitFormatted(p, chg, [kind |-> "dict", rows |-> EmptyTable,
                                             n |-> Cardinality(DOMAIN new_values[p])])
                   /\ UNCHANGED <<table, stmts, set_args>>
              ELSE IF chg
              THEN /\ IF len < 1
                      THEN /\ Len(table) < MaxRows
                           /\ table' = insert_row(table, new_values[p])
                           /\ stmts' = [stmts EXCEPT ![p] = Append(@, "INSERT")]
                           /\ UNCHANGED set_args
                      ELSE /\ table' = update_rows(table, req[p], new_values[p])
                           /\ stmts' = [stmts EXCEPT ![p] = Append(@, "UPDATE")]
                           /\ set_args' = [set_args EXCEPT ![p] =
                                              update_args(req[p].keys, new_values[p])]
                   /\ pc' = [pc EXCEPT ![p] = "written"]
                   /\ UNCHANGED result
              ELSE /\ ExitFormatted(p, chg, now)
                   /\ UNCHANGED <<table, stmts, set_args>>
    /\ UNCHANGED <<exists, req, new_values, type_for_column, rows_after, table0, prev>>

\* lines 267-280 up to the write
state_present(p) ==
    /\ pc[p] = "read"
    /\ req[p].state = "present"
    /\ LET len == LenRows(rows_after[p])
           chg == IF len < 1 THEN TRUE ELSE compare_rows(rows_after[p], new_values[p])
       IN  /\ changed' = [changed EXCEPT ![p] = chg]
           /\ IF DryRun(req[p])
              THEN /\ ExitFormatted(p, chg, [kind |-> "dict", rows |-> EmptyTable,
                                             n |-> Cardinality(DOMAIN new_values[p])])
                   /\ UNCHANGED <<table, stmts, set_args>>
              ELSE IF chg
              THEN /\ IF len < 1
                      THEN /\ Len(table) < MaxRows
                           /\ table' = insert_row(table, new_values[p])
                           /\ stmts' = [stmts EXCEPT ![p] = Append(@, "INSERT")]
                           /\ UNCHANGED set_args
                      ELSE /\ table' = update_rows(table, req[p], new_values[p])
                           /\ stmts' = [stmts EXCEPT ![p] = Append(@, "UPDATE")]
                           /\ set_args' = [set_args EXCEPT ![p] =
                                              update_args(req[p].keys, new_values[p])]
                   /\ pc' = [pc EXCEPT ![p] = "written"]
                   /\ UNCHANGED result
              ELSE /\ ExitFormatted(p, chg, rows_after[p])
                   /\ UNCHANGED <<table, stmts, set_args>>
    /\ UNCHANGED <<exists, req, new_values, type_for_column, rows_after, table0, prev>>

\* variant: the read after the write has no WHERE clause
second_select_unscoped(p) ==
    /\ pc[p] = "written"
    /\ stmts' = [stmts EXCEPT ![p] = Append(@, "SELECT")]
    /\ ExitFormatted(p, changed[p], RowsResult(table))
    /\ UNCHANGED <<table, exists, req, new_values, type_for_column, rows_after,
                   changed, set_args, table0, prev>>

\* lines 265-266 and 279-280: the read after the write
second_select(p) ==
    /\ pc[p] = "written"
    /\ stmts' = [stmts EXCEPT ![p] = Append(@, "SELECT")]
    /\ ExitFormatted(p, changed[p], select_rows(req[p], new_values[p], table))
    /\ UNCHANGED <<table, exists, req, new_values, type_for_column, rows_after,
                   changed, set_args, table0, prev>>

Step(p) ==
    \/ table_exists(p)
    \/ create_table(p)
    \/ first_select(p)
    \/ state_select(p)
    \/ state_absent(p)
    \/ state_insert(p)
    \/ state_present(p)
    \/ second_select(p)

\* one invocation at a time, nothing else writes the table
Next ==
    \/ Invoke(1)
    \/ Repeat(1)
    \/ RunReal(1)
    \/ Step(1)

Spec == Init /\ [][Next]_vars

\* the requests of the concurrent runs
ConcRequests ==
    [state : {"present", "absent", "insert", "select"}, check_mode : {FALSE},
     keys : {<<"c1">>},
     columns : { <<Column("c1", "Integer", "0"), ColumnNoValue("c2", "Integer")>>,
                 <<Column("c1", "Integer", "0"), Column("c2", "Integer", "1")>> },
     filter : {NoFilter}, distinct : {FALSE}]

InvokeConc(p) ==
    /\ pc[p] = "idle"
    /\ \E r \in ConcRequests : Begin(p, r, NoPrev)

\* two invocations run against the same table; every statement is its own
\* autocommitted step (the engine is created without a transaction, line 334) and
\* the steps of the two interleave freely
NextConc ==
    \E p \in Procs : InvokeConc(p) \/ Step(p)

SpecConc == Init /\ [][NextConc]_vars

----------------------------------------------------------------------------
(* What the request asks for, read off the request itself *)

KeySet(r) == {r.keys[i] : i \in 1..Len(r.keys)}

\* desiredState: the declared columns that carry a value, with their canonical values
DesiredState(r) ==
    [c \in {r.columns[i].name : i \in {j \in 1..Len(r.columns) : r.columns[j].has_value}} |->
        IntOf((CHOOSE col \in {r.columns[i] : i \in 1..Len(r.columns)} : col.name = c).value)]

ValidRequest(r) ==
    /\ create_table_error(r.columns, 1) = ""
    /\ split_filter_error(r.filter, 1, Declared(r)) = ""

\* column = declaredValue for every key that has a declared value, AND the compiled filter
InScope(r, row) ==
    /\ \A k \in KeySet(r) \cap DOMAIN DesiredState(r) : row[k] = DesiredState(r)[k]
    /\ Where(split_filter(r.filter, 1), row)

ScopeRows(r, t) == LET Test(row) == InScope(r, row) IN SelectSeq(t, Test)

OtherRows(r, t) == LET Test(row) == ~InScope(r, row) IN SelectSeq(t, Test)

\* the write statements the invocation has executed
WritesOf(p) == LET Test(x) == x \in Writes IN SelectSeq(stmts[p], Test)

\* the invocation has passed the initial read and the decision that follows it
Decided(p) == Len(stmts[p]) >= 1 /\ pc[p] # "read"

----------------------------------------------------------------------------
(* Claims *)

\* C1: present mode, not dry-run: when the same request is run twice in sequence
\* and nothing else writes the table, changed=true is reported at most once.
C1_ChangedAtMostOnce ==
    \A p \in Procs :
        (/\ req[p].state = "present" /\ ~req[p].check_mode
         /\ prev[p].valid /\ prev[p].status = "done"
         /\ pc[p] = "done")
        => ~(prev[p].changed /\ result[p].changed)

\* C2: a call with dryRun=true executes no insert, update or delete in any mode:
\* the table during and after the call is the table before the call.
C2_DryRunNoMutation ==
    \A p \in Procs :
        (pc[p] # "idle" /\ req[p].check_mode)
        => (table = table0[p] /\ ~Wrote(p))

\* a dry-run call that found something to delete has completed
C2_Witness ==
    \E p \in Procs :
        /\ req[p].check_mode /\ req[p].state = "absent"
        /\ pc[p] = "done" /\ result[p].changed
        /\ ScopeRows(req[p], table) # <<>>

\* C3: present mode with dryRun=true completes successfully and returns the
\* desiredState mapping itself as the rows.
C3_DryRunPresentReturnsDesired ==
    \A p \in Procs :
        (/\ req[p].state = "present" /\ req[p].check_mode
         /\ exists /\ ValidRequest(req[p])
         /\ Finished(p))
        => /\ pc[p] = "done"
           /\ result[p].rows = IF DOMAIN DesiredState(req[p]) = {} THEN <<>>
                                ELSE <<DesiredState(req[p])>>

\* C4: present mode: zero rows read means changed and Insert; otherwise changed
\* exactly when some read row differs from desiredState on some declared column,
\* and then the action is Update.
C4_PresentDecision ==
    \A p \in Procs :
        (req[p].state = "present" /\ Decided(p))
        => LET cur == ScopeRows(req[p], table0[p])
               d == DesiredState(req[p])
               differs == \E i \in 1..Len(cur) : \E c \in DOMAIN d : cur[i][c] # d[c]
           IN  /\ changed[p] = (cur = <<>> \/ differs)
               /\ ~req[p].check_mode =>
                     WritesOf(p) = IF cur = <<>> THEN <<"INSERT">>
                                   ELSE IF differs THEN <<"UPDATE">> ELSE <<>>
               /\ pc[p] = "done" => result[p].changed = changed[p]

\* a present call updated because of a row that is not the first one read
C4_Witness ==
    \E p \in Procs :
        /\ req[p].state = "present" /\ ~req[p].check_mode /\ pc[p] = "done"
        /\ WritesOf(p) = <<"UPDATE">>
        /\ LET cur == ScopeRows(req[p], table0[p])
               d == DesiredState(req[p])
           IN  /\ Len(cur) >= 2
               /\ \A c \in DOMAIN d : cur[1][c] = d[c]

DesiredRow(r) ==
    [c \in Cols |-> IF c \in DOMAIN DesiredState(r) THEN DesiredState(r)[c] ELSE NULL]

\* C6: insert mode: every call reports changed=true and every call that is not a
\* dry run adds exactly one row with the declared values, also when an equal row
\* is already stored.
C6_Insert ==
    \A p \in Procs :
        (req[p].state = "insert" /\ Finished(p))
        => /\ pc[p] = "failed" => (~exists \/ ~ValidRequest(req[p]))
           /\ pc[p] = "done" =>
                /\ result[p].changed
                /\ IF req[p].check_mode
                   THEN WritesOf(p) = <<>> /\ table = table0[p]
                   ELSE /\ WritesOf(p) = <<"INSERT">>
                        /\ table = AddRow(table0[p], DesiredRow(req[p]))

\* the second of two identical insert calls has added a second copy of the row
C6_Witness ==
    \E p \in Procs :
        /\ req[p].state = "insert" /\ ~req[p].check_mode /\ pc[p] = "done"
        /\ prev[p].valid /\ prev[p].wrote
        /\ Cardinality({i \in 1..Len(table) : table[i] = DesiredRow(req[p])}) >= 2

MutableFields(r) ==
    [c \in DOMAIN DesiredState(r) \ KeySet(r) |-> DesiredState(r)[c]]

Selected(r, t) == IF r.distinct THEN Distinct(ScopeRows(r, t)) ELSE ScopeRows(r, t)

\* C8: the rows a call reads, updates or deletes are exactly the rows with
\* column = declaredValue for every key that has a declared value AND the compiled
\* filter; Update and Delete leave every other row as it was.
C8_PredicateScoping ==
    \A p \in Procs :
        Len(stmts[p]) >= 1
        => LET r == req[p]
               in0 == ScopeRows(r, table0[p])
               out0 == OtherRows(r, table0[p])
           IN  /\ r.state # "count" => rows_after[p].rows = Selected(r, table0[p])
               /\ WritesOf(p) = <<"UPDATE">> =>
                     table = AsBag(out0 \o [i \in 1..Len(in0) |->
                                               Updated(in0[i], MutableFields(r))])
               /\ WritesOf(p) = <<"DELETE">> => table = out0
               /\ (pc[p] = "done" /\ ~result[p].rows_null
                      /\ ~(r.state = "present" /\ r.check_mode))
                     => result[p].rows = Selected(r, table)

\* an Update ran past a row that has the key values but fails the filter
C8_Witness ==
    \E p \in Procs :
        /\ WritesOf(p) = <<"UPDATE">> /\ pc[p] = "done"
        /\ req[p].filter # NoFilter
        /\ \E i \in 1..Len(table0[p]) :
              /\ ~InScope(req[p], table0[p][i])
              /\ \A k \in KeySet(req[p]) \cap DOMAIN DesiredState(req[p]) :
                    table0[p][i][k] = DesiredState(req[p])[k]

KeyProjection(r, row) == [k \in KeySet(r) \cap Cols |-> row[k]]

\* C9: the SET payload of an Update is exactly the declared columns that are not
\* keys, so every row keeps its value in every key column.
C9_UpdateNeverWritesKey ==
    \A p \in Procs :
        WritesOf(p) = <<"UPDATE">>
        => /\ set_args[p] = MutableFields(req[p])
           /\ \A f \in [KeySet(req[p]) \cap Cols -> Cell] :
                 Cardinality({i \in 1..Len(table) : KeyProjection(req[p], table[i]) = f})
                 = Cardinality({i \in 1..Len(table0[p]) :
                                  KeyProjection(req[p], table0[p][i]) = f})

\* an Update of a request whose key has a declared value changed a row
C9_Witness ==
    \E p \in Procs :
        /\ WritesOf(p) = <<"UPDATE">> /\ pc[p] = "done"
        /\ KeySet(req[p]) \cap DOMAIN DesiredState(req[p]) # {}
        /\ table # table0[p]
        /\ Len(table) >= 2

\* C10: when the table does not exist the invocation fails with the
\* table-not-found error before any statement is executed, in every mode and
\* whatever the rest of the request is.
C10_TableCheckedFirst ==
    \A p \in Procs :
        (~exists /\ pc[p] # "idle")
        => /\ stmts[p] = <<>>
           /\ pc[p] \in {"init", "failed"}
           /\ pc[p] = "failed" => result[p].msg = "table does not exist"
           /\ new_values[p] = EmptyArgs
           /\ table = table0[p]

\* a request with an unknown type name has failed on the missing table
C10_Witness ==
    \E p \in Procs :
        /\ ~exists /\ pc[p] = "failed"
        /\ result[p].msg = "table does not exist"
        /\ ~ValidRequest(req[p])

\* a filter leaf, at any depth, that names an undeclared column or an operator the
\* column does not support
RECURSIVE BadLeaf(_, _)
BadLeaf(fltrs, declared) ==
    \E i \in 1..Len(fltrs) :
        IF fltrs[i].key \in {"and", "or"}
        THEN BadLeaf(fltrs[i].sub, declared)
        ELSE \/ fltrs[i].column \notin declared
             \/ fltrs[i].key \notin ({"eq", "ne"} \cup ColumnOperators)

\* the four builder faults of a request
BuilderFault(r) ==
    \/ \E i \in 1..Len(r.columns) : r.columns[i].type \notin TYPE_FOR_NAME
    \/ \E i \in 1..Len(r.columns) :
          r.columns[i].has_value /\ IntOf(r.columns[i].value) = IntError
    \/ BadLeaf(r.filter, Declared(r))

BuilderErrors ==
    {"KeyError", "ValueError", "TypeError", "Column does not exist",
     "Unknown operator on column"}

\* C11: a request with an unknown type name, an uncoercible declared value, a
\* filter leaf on an undeclared column or a filter leaf with an unsupported
\* operator fails while the first statement is built: no statement has been
\* executed and the table is unchanged when the error is raised.
C11_BuilderFailuresFirst ==
    \A p \in Procs :
        (exists /\ pc[p] # "idle" /\ BuilderFault(req[p]))
        => /\ stmts[p] = <<>>
           /\ table = table0[p]
           /\ pc[p] \in {"init", "checked", "created", "failed"}
           /\ pc[p] = "failed" => result[p].msg \in BuilderErrors

\* an absent call whose filter has an unsupported operator failed on a table that
\* holds rows with the key value
C11_Witness ==
    \E p \in Procs :
        /\ exists /\ pc[p] = "failed"
        /\ req[p].state = "absent" /\ ~req[p].check_mode
        /\ result[p].msg = "Unknown operator on column"
        /\ \E i \in 1..Len(table) : table[i]["c1"] = 0

\* C12: a request whose keys name a column that is not declared fails with the
\* unknown-column error instead of running with that key unconstrained; an absent
\* call with such a key deletes nothing.
C12_UndeclaredKeyFails ==
    \A p \in Procs :
        (exists /\ Finished(p) /\ ~(KeySet(req[p]) \subseteq Declared(req[p])))
        => /\ pc[p] = "failed"
           /\ result[p].msg = "Column does not exist"
           /\ WritesOf(p) = <<>>
           /\ table = table0[p]

\* the rows with the key values whose column c holds a value other than v
NeRows(r, c, v, t) ==
    LET Test(row) ==
            /\ \A k \in KeySet(r) \cap DOMAIN DesiredState(r) : row[k] = DesiredState(r)[k]
            /\ row[c] # NULL
            /\ row[c] # v
    IN  SelectSeq(t, Test)

\* C13: the ne leaf compiles to column != value: a select with the filter
\* {ne: {column: c, value: v}} returns exactly the rows, among those with the key
\* values, whose column c is not equal to v.
C13_NeComparesValue ==
    \A p \in Procs :
        (/\ exists /\ req[p].state = "select" /\ Finished(p)
         /\ create_table_error(req[p].columns, 1) = ""
         /\ Len(req[p].filter) = 1
         /\ req[p].filter[1].key = "ne"
         /\ req[p].filter[1].column \in Declared(req[p]))
        => /\ pc[p] = "done"
           /\ result[p].rows =
                 NeRows(req[p], req[p].filter[1].column, req[p].filter[1].value, table)

\* a tree built from and / or over eq leaves on declared columns
RECURSIVE AndOrEq(_, _)
AndOrEq(fltrs, declared) ==
    \A i \in 1..Len(fltrs) :
        IF fltrs[i].key \in {"and", "or"}
        THEN fltrs[i].sub # <<>> /\ AndOrEq(fltrs[i].sub, declared)
        ELSE fltrs[i].key = "eq" /\ fltrs[i].column \in declared

\* the boolean formula of a node, whatever the shape its children were given in
RECURSIVE TreeSat(_, _)
TreeSat(f, row) ==
    CASE f.key = "and" -> \A i \in 1..Len(f.sub) : TreeSat(f.sub[i], row)
      [] f.key = "or" -> \E i \in 1..Len(f.sub) : TreeSat(f.sub[i], row)
      [] OTHER -> row[f.column] = f.value

TreeRows(r, t) ==
    LET Test(row) ==
            /\ \A k \in KeySet(r) \cap DOMAIN DesiredState(r) : row[k] = DesiredState(r)[k]
            /\ \A i \in 1..Len(r.filter) : TreeSat(r.filter[i], row)
    IN  SelectSeq(t, Test)

\* C14: for every filter tree built from and / or over eq leaves and every table,
\* a select returns exactly the rows that satisfy the boolean formula of the tree:
\* all children of an and node, some child of an or node, at every depth.
C14_FilterCombinators ==
    \A p \in Procs :
        (/\ exists /\ req[p].state = "select" /\ Finished(p)
         /\ create_table_error(req[p].columns, 1) = ""
         /\ req[p].filter # NoFilter
         /\ AndOrEq(req[p].filter, Declared(req[p])))
        => /\ pc[p] = "done"
           /\ result[p].rows = TreeRows(req[p], table)

\* the same for the trees whose combinators hold a mapping with distinct keys
MappingTreesExact ==
    \A p \in Procs :
        (/\ exists /\ req[p].state = "select" /\ Finished(p)
         /\ create_table_error(req[p].columns, 1) = ""
         /\ req[p].filter # NoFilter
         /\ AndOrEq(req[p].filter, Declared(req[p]))
         /\ split_filter_error(req[p].filter, 1, Declared(req[p])) # "TypeError")
        => /\ pc[p] = "done"
           /\ result[p].rows = TreeRows(req[p], table)

\* C15: count mode completes successfully on every table, with changed=false and
\* one scalar: the number of rows that satisfy the key-equality AND filter
\* predicate at the time of the read.
C15_CountReturnsScalar ==
    \A p \in Procs :
        (exists /\ req[p].state = "count" /\ ValidRequest(req[p]) /\ Finished(p))
        => /\ pc[p] = "done"
           /\ ~result[p].changed
           /\ rows_after[p].kind = "count"
           /\ rows_after[p].n = Len(ScopeRows(req[p], table))

\* C16: in every mode, a call that is not a dry run returns changed=true if and
\* only if it executed an INSERT, UPDATE or DELETE; a call that returns
\* changed=false, or fails, has executed no such statement.
C16_ChangedTellsTruth ==
    \A p \in Procs :
        (~req[p].check_mode /\ pc[p] # "idle")
        => /\ pc[p] = "done" => (result[p].changed <=> WritesOf(p) # <<>>)
           /\ pc[p] = "failed" => (~result[p].changed /\ WritesOf(p) = <<>>)
           /\ WritesOf(p) # <<>> => (changed[p] /\ pc[p] \in {"written", "done"})

\* a present call that is not a dry run has updated rows and returned changed=true
C16_Witness ==
    \E p \in Procs :
        /\ ~req[p].check_mode /\ req[p].state = "present" /\ pc[p] = "done"
        /\ result[p].changed
        /\ WritesOf(p) = <<"UPDATE">>
        /\ table # table0[p]

\* C17: after a present call that is not a dry run and reported changed=true,
\* with no other writer: (a) when rows matched, the number of rows is unchanged
\* and every row that matched equals desiredState on every declared column that is
\* not a key; (b) when no row matched, exactly one row was added and its declared
\* columns equal desiredState; the rows returned are the re-read of the same
\* predicate after the write.
C17_PresentConvergence ==
    \A p \in Procs :
        (/\ req[p].state = "present" /\ ~req[p].check_mode
         /\ pc[p] = "done" /\ result[p].changed)
        => LET r == req[p]
               d == DesiredState(r)
               in0 == ScopeRows(r, table0[p])
               out0 == OtherRows(r, table0[p])
               now == [i \in 1..Len(in0) |->
                          [c \in Cols |-> IF c \in DOMAIN d \ KeySet(r) THEN d[c]
                                          ELSE in0[i][c]]]
           IN  /\ IF in0 # <<>>
                  THEN /\ Len(table) = Len(table0[p])
                       /\ table = AsBag(out0 \o now)
                  ELSE /\ Len(table) = Len(table0[p]) + 1
                       /\ \E row \in AllRows :
                             /\ table = AddRow(table0[p], row)
                             /\ \A c \in DOMAIN d : row[c] = d[c]
                             /\ \A c \in Cols \ DOMAIN d : row[c] = NULL
               /\ result[p].rows = Selected(r, table)

\* two rows matched, both were brought to desiredState and both were returned
C17_Witness ==
    \E p \in Procs :
        /\ req[p].state = "present" /\ ~req[p].check_mode
        /\ pc[p] = "done" /\ result[p].changed
        /\ Len(ScopeRows(req[p], table0[p])) = 2
        /\ \A i \in 1..2 : ScopeRows(req[p], table0[p])[i] # table[i]
        /\ Len(result[p].rows) = 2

\* the write a present call decides on from the rows of its own initial read
OwnReadWrite(p) ==
    LET d == DesiredState(req[p])
        rows == rows_after[p].rows
    IN  IF rows = <<>> THEN <<"INSERT">>
        ELSE IF \E i \in 1..Len(rows) : \E c \in DOMAIN d : rows[i][c] # d[c]
        THEN <<"UPDATE">>
        ELSE <<>>

\* C18: nothing locks the table between the read and the write of an invocation:
\* the write of a present call is the one decided on its own initial read, whatever
\* another invocation has written since, so two concurrent present calls with the
\* same request that both read zero rows both execute their INSERT and leave two
\* rows with the key values.
C18_ReadDecideWriteRace ==
    \A p \in Procs :
        (req[p].state = "present" /\ pc[p] \in {"written", "done"})
        => /\ WritesOf(p) = OwnReadWrite(p)
           /\ \A q \in Procs \ {p} :
                 (/\ req[q] = req[p] /\ pc[q] \in {"written", "done"}
                  /\ rows_after[p].rows = <<>> /\ rows_after[q].rows = <<>>)
                 => Len(ScopeRows(req[p], table)) >= 2

\* both invocations read zero rows, both inserted, two rows now have the key values
C18_Witness ==
    /\ req[1] = req[2] /\ req[1].state = "present"
    /\ pc[1] = "done" /\ pc[2] = "done"
    /\ rows_after[1].rows = <<>> /\ rows_after[2].rows = <<>>
    /\ WritesOf(1) = <<"INSERT">> /\ WritesOf(2) = <<"INSERT">>
    /\ result[1].changed /\ result[2].changed
    /\ Len(ScopeRows(req[1], table)) = 2

\* an invocation applied the decision of its initial read to a table that the
\* other invocation had changed in between
C18_StaleDecision ==
    \E p \in Procs :
        /\ req[p].state = "present" /\ pc[p] = "done"
        /\ WritesOf(p) = <<"UPDATE">>
        /\ rows_after[p].rows # <<>>
        /\ ScopeRows(req[p], table) = <<>>

\* C19: the rows an insert call returns are exactly the rows of the table after
\* the insert that satisfy the key-equality AND filter predicate (each once under
\* distinct); the inserted row is among them if and only if it satisfies the
\* predicate.
C19_InsertResultScoping ==
    \A p \in Procs :
        (req[p].state = "insert" /\ pc[p] = "done")
        => LET r == req[p]
               new == DesiredRow(r)
               Test(row) == InScope(r, row)
           IN  /\ \A row \in AllRows :
                     Cardinality({i \in 1..Len(result[p].rows) : result[p].rows[i] = row})
                     = IF r.distinct
                       THEN (IF \E i \in 1..Len(table) : table[i] = row /\ Test(row)
                             THEN 1 ELSE 0)
                       ELSE Cardinality({i \in 1..Len(table) : table[i] = row /\ Test(row)})
               /\ ~r.check_mode =>
                     /\ \E i \in 1..Len(table) : table[i] = new
                     /\ (\E i \in 1..Len(result[p].rows) : result[p].rows[i] = new)
                           <=> Test(new)

\* the filter excludes the inserted row: it is stored, and the rows returned are
\* the older rows that satisfy the predicate
C19_Witness ==
    \E p \in Procs :
        /\ req[p].state = "insert" /\ ~req[p].check_mode /\ pc[p] = "done"
        /\ ~InScope(req[p], DesiredRow(req[p]))
        /\ \E i \in 1..Len(table) : table[i] = DesiredRow(req[p])
        /\ result[p].rows # <<>>
        /\ \A i \in 1..Len(result[p].rows) : result[p].rows[i] # DesiredRow(req[p])

\* C20: in every mode, for every request and table, the changed flag the call
\* returns with dryRun=true equals the flag the same request returns with
\* dryRun=false from the same table.
C20_DryRunPredicts ==
    \A p \in Procs :
        (/\ prev[p].dry /\ exists /\ ValidRequest(req[p])
         /\ pc[p] = "done")
        => /\ prev[p].status = "done"
           /\ prev[p].changed = result[p].changed

\* the same, for the dry runs that return
DryRunPredictsWhenItReturns ==
    \A p \in Procs :
        (/\ prev[p].dry /\ exists /\ ValidRequest(req[p])
         /\ pc[p] = "done" /\ prev[p].status = "done")
        => prev[p].changed = result[p].changed

====
